---- MODULE Spec2Model ----
(***************************************************************************)
(* The .sgoann annotation parser of sgo/annotations/parse.go: the          *)
(* rune-level Tokenizer (Peek, Next, SkipWhite, SkipWhiteUntilLine) and    *)
(* the recursive-descent parser (Parse, parseList, parseItem, parseName,   *)
(* parseReceiver, parseIdent, parseDef, parseType, expect).                *)
(*                                                                         *)
(* A source is a sequence of bytes (0..255); a Go string built from runes  *)
(* (a name, a type text, a key of the mapping) is a sequence of runes.     *)
(* Offsets are 0-based as in the code: the byte at offset i is src[i+1].   *)
(***************************************************************************)
EXTENDS Integers, Sequences, FiniteSets, TLC

VARIABLES
    input,   \* input[p]: the src argument of the Parse call of caller p
    tok,     \* tok[i]: the Tokenizer object i (src, bytePos, runePos, lastLinePos, line, lookahead)
    stack,   \* stack[p]: the call stack of caller p, innermost frame first
    ret,     \* ret[p]: the (value, error) pair the last returning grammar function handed back
    result,  \* result[p]: what Parse returned to caller p
    last     \* what the last direct Tokenizer method call returned

vars == <<input, tok, stack, ret, result, last>>

-----------------------------------------------------------------------------
(* Runes and their classes.                                                *)

RuneError == 65533

LF == 10

Semicolon == 59

LParen == 40

RParen == 41

Star == 42

Underscore == 95

LBrace == 123

RBrace == 125

Dot == 46

\* unicode.IsLetter on the Latin-1 range (the runes the model's sources decode to).
IsLetter(r) ==
    \/ r \in 65..90
    \/ r \in 97..122
    \/ r \in {170, 181, 186}
    \/ r \in 192..214
    \/ r \in 216..246
    \/ r \in 248..255

\* unicode.IsDigit on the Latin-1 range.
IsDigit(r) == r \in 48..57

\* unicode.IsSpace on the Latin-1 range: '\t' '\n' '\v' '\f' '\r' ' ' U+0085 U+00A0.
IsSpace(r) == r \in 9..13 \/ r \in {32, 133, 160}

-----------------------------------------------------------------------------
(* Values: tokens and errors.                                              *)

\* Token{}: the zero Token.
ZeroToken ==
    [Lexeme |-> 0, Line |-> 0, Col |-> 0, Size |-> 0, BytePos |-> 0, RunePos |-> 0]

\* nil error.
Nil == [kind |-> "nil"]

\* io.EOF, the tokenizer's end-of-input.
IoEOF == [kind |-> "io.EOF"]

\* EOF, the package's "unexpected end of file".
EOF == [kind |-> "EOF"]

NewUTF8Error(l, c) == [kind |-> "UTF8Error", Line |-> l, Col |-> c]

NewUnexpectedTokenError(tk) == [kind |-> "UnexpectedTokenError", Token |-> tk]

-----------------------------------------------------------------------------
(* utf8.DecodeRuneInString(s[pos:]), pos 0-based: the rune and its size.    *)

ByteAt(s, i) == s[i + 1]

IsCont(b) == b \in 128..191

DecodeRuneInString(s, pos) ==
    LET n == Len(s) - pos
        bad == [r |-> RuneError, size |-> 1]
    IN  IF n < 1 THEN [r |-> RuneError, size |-> 0]
        ELSE LET s0 == ByteAt(s, pos)
                 sz == IF s0 \in 194..223 THEN 2
                       ELSE IF s0 \in 224..239 THEN 3
                       ELSE IF s0 \in 240..244 THEN 4
                       ELSE 0
                 lo == IF s0 = 224 THEN 160 ELSE IF s0 = 240 THEN 144 ELSE 128
                 hi == IF s0 = 237 THEN 159 ELSE IF s0 = 244 THEN 143 ELSE 191
             IN  IF s0 < 128 THEN [r |-> s0, size |-> 1]
                 ELSE IF sz = 0 THEN bad
                 ELSE IF n < sz THEN bad
                 ELSE IF ByteAt(s, pos + 1) < lo \/ hi < ByteAt(s, pos + 1) THEN bad
                 ELSE IF sz = 2
                      THEN [r |-> (s0 % 32) * 64 + (ByteAt(s, pos + 1) % 64), size |-> 2]
                 ELSE IF ~IsCont(ByteAt(s, pos + 2)) THEN bad
                 ELSE IF sz = 3
                      THEN [r |-> (s0 % 16) * 4096 + (ByteAt(s, pos + 1) % 64) * 64
                                    + (ByteAt(s, pos + 2) % 64),
                            size |-> 3]
                 ELSE IF ~IsCont(ByteAt(s, pos + 3)) THEN bad
                 ELSE [r |-> (s0 % 8) * 262144 + (ByteAt(s, pos + 1) % 64) * 4096
                               + (ByteAt(s, pos + 2) % 64) * 64 + (ByteAt(s, pos + 3) % 64),
                       size |-> 4]

-----------------------------------------------------------------------------
(* The Tokenizer.  Every method is an operator on the Tokenizer record t    *)
(* giving the record after the call and what the call returns.             *)

NewTokenizer(src) ==
    [src |-> src, bytePos |-> 0, runePos |-> 0, lastLinePos |-> 0, line |-> 1,
     lookahead |-> ZeroToken]

empty(t) == t.bytePos >= Len(t.src)

\* col counting bytes instead of runes.
colInBytes(t) == t.bytePos - t.lastLinePos + 1

col(t) == t.runePos - t.lastLinePos + 1

\* The decoded rune is rejected when it equals utf8.RuneError.
IsRuneError(d) == d.r = RuneError

\* The Token of the rune d decoded at the current position.
NewToken(t, d) ==
    [Lexeme |-> d.r, Size |-> d.size, BytePos |-> t.bytePos, RunePos |-> t.runePos,
     Line |-> t.line, Col |-> col(t)]

\* Peek without the comparison of the rune with utf8.RuneError.
PeekUnchecked(t, d) ==
    [t |-> [t EXCEPT !.lookahead = NewToken(t, d)], tk |-> NewToken(t, d), err |-> Nil]

\* Peek once the rune d at the current position is decoded.
PeekDecoded(t, d) ==
    IF IsRuneError(d)
    THEN [t |-> t, tk |-> ZeroToken, err |-> NewUTF8Error(t.line, col(t))]
    ELSE [t |-> [t EXCEPT !.lookahead = NewToken(t, d)], tk |-> NewToken(t, d), err |-> Nil]

Peek(t) ==
    IF t.lookahead.Size > 0 THEN [t |-> t, tk |-> t.lookahead, err |-> Nil]
    ELSE IF empty(t) THEN [t |-> t, tk |-> ZeroToken, err |-> IoEOF]
    ELSE PeekDecoded(t, DecodeRuneInString(t.src, t.bytePos))

\* Counters that move on by the bytes of tk and count no rune.
AdvanceBytesOnly(t, tk) ==
    IF tk.Size > 0
    THEN [t EXCEPT !.bytePos = t.bytePos + tk.Size,
                   !.line = IF tk.Lexeme = LF THEN t.line + 1 ELSE t.line,
                   !.lastLinePos = IF tk.Lexeme = LF THEN t.runePos ELSE t.lastLinePos]
    ELSE t

\* Counters whose start of line is a byte offset.
AdvanceLineStartInBytes(t, tk) ==
    IF tk.Size > 0
    THEN [t EXCEPT !.runePos = t.runePos + 1,
                   !.bytePos = t.bytePos + tk.Size,
                   !.line = IF tk.Lexeme = LF THEN t.line + 1 ELSE t.line,
                   !.lastLinePos = IF tk.Lexeme = LF THEN t.bytePos + tk.Size
                                   ELSE t.lastLinePos]
    ELSE t

\* The position counters after Next has consumed tk.
Advance(t, tk) ==
    IF tk.Size > 0
    THEN [t EXCEPT !.runePos = t.runePos + 1,
                   !.bytePos = t.bytePos + tk.Size,
                   !.line = IF tk.Lexeme = LF THEN t.line + 1 ELSE t.line,
                   !.lastLinePos = IF tk.Lexeme = LF THEN t.runePos + 1 ELSE t.lastLinePos]
    ELSE t

\* Next leaving the lookahead slot as it is.
KeepLookahead(t) == t

\* The lookahead slot after Next.
ClearLookahead(t) ==
    IF t.lookahead.Size > 0 THEN [t EXCEPT !.lookahead = ZeroToken] ELSE t

\* Next stepping over the byte that its Peek has rejected.
NextSkippingBad(p) ==
    IF p.err = IoEOF THEN [t |-> p.t, tk |-> ZeroToken, err |-> p.err]
    ELSE IF p.err # Nil
         THEN [t |-> [p.t EXCEPT !.bytePos = @ + 1, !.runePos = @ + 1],
               tk |-> ZeroToken, err |-> p.err]
    ELSE [t |-> Advance(ClearLookahead(p.t), p.tk), tk |-> p.tk, err |-> Nil]

\* Next once its Peek has returned p.
NextPeeked(p) ==
    IF p.err # Nil THEN [t |-> p.t, tk |-> ZeroToken, err |-> p.err]
    ELSE [t |-> Advance(ClearLookahead(p.t), p.tk), tk |-> p.tk, err |-> Nil]

Next(t) == NextPeeked(Peek(t))

RECURSIVE SkipWhite(_)
\* One turn of SkipWhite's loop once its Peek has returned p.
SkipWhitePeeked(p) ==
    IF p.err # Nil \/ ~IsSpace(p.tk.Lexeme) THEN p.t
    ELSE SkipWhite(Next(p.t).t)

SkipWhite(t) == SkipWhitePeeked(Peek(t))

RECURSIVE SkipWhiteUntilLine(_)
\* A turn of the loop that goes on over a line feed as over any white space.
SkipWhiteOverLinePeeked(p) ==
    IF p.err # Nil \/ ~IsSpace(p.tk.Lexeme) THEN p.t
    ELSE SkipWhiteUntilLine(Next(p.t).t)

\* One turn of SkipWhiteUntilLine's loop once its Peek has returned p.
SkipWhiteUntilLinePeeked(p) ==
    IF p.err # Nil \/ p.tk.Lexeme = LF \/ ~IsSpace(p.tk.Lexeme) THEN p.t
    ELSE SkipWhiteUntilLine(Next(p.t).t)

SkipWhiteUntilLine(t) == SkipWhiteUntilLinePeeked(Peek(t))

-----------------------------------------------------------------------------
(* The grammar functions that do not recurse, as operators on the          *)
(* Tokenizer record: the record after the call, the value and the error.   *)

\* A Go map[string]string value: nil, or a function from keys to texts.
NilMap == [nil |-> TRUE, m |-> <<>>]

MkMap(f) == [nil |-> FALSE, m |-> f]

\* return "", err
Fail(t, err) == [t |-> t, val |-> <<>>, err |-> err]

\* return val, nil
Ok(t, val) == [t |-> t, val |-> val, err |-> Nil]

\* strings.TrimSpace on a sequence of runes.
RECURSIVE TrimLeft(_)
TrimLeft(s) == IF s # <<>> /\ IsSpace(Head(s)) THEN TrimLeft(Tail(s)) ELSE s

RECURSIVE TrimRight(_)
TrimRight(s) ==
    IF s # <<>> /\ IsSpace(s[Len(s)]) THEN TrimRight(SubSeq(s, 1, Len(s) - 1)) ELSE s

\* The text as collected, white space kept.
Untrimmed(s) == s

TrimSpace(s) == TrimRight(TrimLeft(s))

\* expect once its Next has returned n.
expectNext(r, n) ==
    IF n.err # Nil THEN [t |-> n.t, err |-> n.err]
    ELSE IF n.tk.Lexeme # r THEN [t |-> n.t, err |-> NewUnexpectedTokenError(n.tk)]
    ELSE [t |-> n.t, err |-> Nil]

expect(r, t) == expectNext(r, Next(t))

\* A rune that continues an identifier (the loop condition of parseIdent).
IsIdentPart(r) == IsLetter(r) \/ IsDigit(r)

RECURSIVE parseIdentLoop(_, _)
\* One turn of parseIdent's loop once its Peek has returned p.
parseIdentPeeked(p, id) ==
    IF p.err # Nil THEN Fail(p.t, p.err)
    ELSE IF ~IsIdentPart(p.tk.Lexeme) THEN Ok(p.t, id)
    ELSE parseIdentLoop(Next(p.t).t, Append(id, p.tk.Lexeme))

\* The loop of parseIdent, id the runes taken so far.
parseIdentLoop(t, id) == parseIdentPeeked(Peek(t), id)

\* parseIdent once its first Next has returned n.
parseIdentFirst(n) ==
    IF n.err # Nil THEN Fail(n.t, n.err)
    ELSE parseIdentLoop(n.t, <<n.tk.Lexeme>>)

parseIdent(t) == parseIdentFirst(Next(t))

\* parseReceiver from the second expect, which has returned e2.
parseReceiverClose(id, e2) ==
    IF e2.err # Nil THEN Fail(e2.t, e2.err)
    ELSE Ok(e2.t, <<LParen, Star>> \o id \o <<RParen>>)

\* A receiver whose ")" must follow the identifier with no white space.
parseReceiverIdentTight(id) ==
    IF id.err # Nil THEN Fail(id.t, id.err)
    ELSE parseReceiverClose(id.val, expect(RParen, id.t))

\* parseReceiver from parseIdent, which has returned id.
parseReceiverIdent(id) ==
    IF id.err # Nil THEN Fail(id.t, id.err)
    ELSE parseReceiverClose(id.val, expect(RParen, SkipWhite(id.t)))

\* parseReceiver from the first expect, which has returned e1.
parseReceiverStar(e1) ==
    IF e1.err # Nil THEN Fail(e1.t, e1.err)
    ELSE parseReceiverIdent(parseIdent(SkipWhite(e1.t)))

parseReceiver(t) == parseReceiverStar(expect(Star, SkipWhite(Next(t).t)))

\* A rune that starts an identifier.
IsIdentStart(r) == r = Underscore \/ IsLetter(r)

\* parseName once its Peek has returned p.
parseNamePeeked(p) ==
    IF p.err # Nil THEN Fail(p.t, p.err)
    ELSE IF p.tk.Lexeme = LParen THEN parseReceiver(p.t)
    ELSE IF IsIdentStart(p.tk.Lexeme) THEN parseIdent(p.t)
    ELSE Fail(p.t, NewUnexpectedTokenError(p.tk))

parseName(t) == parseNamePeeked(Peek(t))

\* A type text that also ends at a closing brace.
IsTerminatorOrClose(r) == r = LF \/ r = Semicolon \/ r = RBrace

\* A rune that ends a type text.
IsTerminator(r) == r = LF \/ r = Semicolon

RECURSIVE parseTypeLoop(_, _)
\* One turn of parseType's loop once its Peek has returned p.
parseTypePeeked(p, typ) ==
    IF p.err # Nil /\ p.err # IoEOF THEN Fail(p.t, p.err)
    ELSE IF IsTerminator(p.tk.Lexeme) \/ p.err = IoEOF THEN Ok(p.t, TrimSpace(typ))
    ELSE parseTypeLoop(Next(p.t).t, Append(typ, p.tk.Lexeme))

\* The loop of parseType, typ the runes taken so far.
parseTypeLoop(t, typ) == parseTypePeeked(Peek(t), typ)

\* A type text that may start with a line feed.
IsBraceOrSemicolon(r) == r = LBrace \/ r = Semicolon

\* A rune a type text cannot start with.
IsTypeStop(r) == r = LBrace \/ r = LF \/ r = Semicolon

\* parseType once its first Next has returned n.
parseTypeFirst(n) ==
    IF n.err # Nil THEN Fail(n.t, n.err)
    ELSE IF IsTypeStop(n.tk.Lexeme) THEN Fail(n.t, NewUnexpectedTokenError(n.tk))
    ELSE parseTypeLoop(n.t, <<n.tk.Lexeme>>)

parseType(t) == parseTypeFirst(Next(t))

-----------------------------------------------------------------------------
(* The recursive grammar functions, one action per stretch of code between *)
(* two calls of a recursive grammar function.  A frame holds the function, *)
(* the place the function is at, and its locals anns and name.             *)

Frame(fn, pc) == [fn |-> fn, pc |-> pc, anns |-> <<>>, name |-> <<>>]

\* One Tokenizer object used by every Parse call.
SharedTok(p) == 1

\* The Tokenizer object that the Parse call of caller p creates and uses.
TokOf(p) == p

Top(p) == Head(stack[p])

At(p, fn, pc) == p \in DOMAIN stack /\ stack[p] # <<>> /\ Top(p).fn = fn /\ Top(p).pc = pc

\* return val, err: the frame is popped and the pair handed to the caller.
Return(p, val, err) ==
    /\ stack' = [stack EXCEPT ![p] = Tail(@)]
    /\ ret' = [ret EXCEPT ![p] = [val |-> val, err |-> err]]

\* The frame on top becomes frame, and fn is called.
Call(p, frame, fn) ==
    /\ stack' = [stack EXCEPT ![p] = <<Frame(fn, "start")>> \o <<frame>> \o Tail(@)]
    /\ ret' = ret

SetTok(p, t) == tok' = [tok EXCEPT ![TokOf(p)] = t]

\* Parse, lines 25-26: a new Tokenizer, and the call of parseList.
ParseCall(p) ==
    /\ p \in DOMAIN input
    /\ stack[p] = <<>>
    /\ ~result[p].returned
    /\ tok' = (TokOf(p) :> NewTokenizer(input[p])) @@ tok
    /\ stack' = [stack EXCEPT ![p] = <<Frame("parseList", "start"), Frame("Parse", "list")>>]
    /\ UNCHANGED <<input, ret, result, last>>

\* Parse, line 27: the mapping (wrapped by NewAnnotation) and the error.
ParseReturn(p) ==
    /\ At(p, "Parse", "list")
    /\ result' = [result EXCEPT ![p] =
                     [returned |-> TRUE, anns |-> ret[p].val, err |-> ret[p].err]]
    /\ stack' = [stack EXCEPT ![p] = <<>>]
    /\ UNCHANGED <<input, tok, ret, last>>

\* A List that goes on at every token but a closing brace.
IsNotClose(r) == r # RBrace

\* The guard of parseList's loop: the token can start a Name.
IsNameStart(r) == r = LParen \/ r = Underscore \/ IsLetter(r)

\* A turn of the loop that consumes the token it looks at.
NextAfterWhite(t) == Next(SkipWhite(t))

\* parseList, lines 33-34: SkipWhite, then Peek.
PeekAfterWhite(t) == Peek(SkipWhite(t))

\* parseList, lines 32-43: one turn of the loop up to the call of parseItem.
parseList(p) ==
    /\ At(p, "parseList", "start")
    /\ \E pk \in {PeekAfterWhite(tok[TokOf(p)])} :
          /\ SetTok(p, pk.t)
          /\ IF pk.err # Nil /\ pk.err # IoEOF THEN Return(p, NilMap, pk.err)
             ELSE IF pk.err = IoEOF \/ ~IsNameStart(pk.tk.Lexeme)
                  THEN Return(p, MkMap(Top(p).anns), Nil)
             ELSE Call(p, [Top(p) EXCEPT !.pc = "item"], "parseItem")
    /\ UNCHANGED <<input, result, last>>

\* The error of parseItem handed on as it is.
SameError(err) == err

\* The error parseList returns for the error err of parseItem.
ListError(err) == IF err = IoEOF THEN EOF ELSE err

\* A merge that keeps the entry already present.
KeepFirst(anns, itemAnns) == anns @@ itemAnns

\* anns[k] = v for every k, v of itemAnns.
Merge(anns, itemAnns) == itemAnns @@ anns

\* parseList, lines 44-52: parseItem has returned.
parseListMerge(p) ==
    /\ At(p, "parseList", "item")
    /\ IF ret[p].err # Nil THEN Return(p, NilMap, ListError(ret[p].err))
       ELSE /\ stack' = [stack EXCEPT ![p] =
                            <<[Top(p) EXCEPT !.pc = "start",
                                             !.anns = Merge(@, ret[p].val.m)]>> \o Tail(@)]
            /\ ret' = ret
    /\ UNCHANGED <<input, tok, result, last>>

\* parseItem, lines 57-63: the name, and the call of parseDef.
parseItem(p) ==
    /\ At(p, "parseItem", "start")
    /\ \E n \in {parseName(tok[TokOf(p)])} :
          IF n.err # Nil
          THEN SetTok(p, n.t) /\ Return(p, NilMap, n.err)
          ELSE /\ SetTok(p, SkipWhiteUntilLine(n.t))
               /\ Call(p, [Top(p) EXCEPT !.pc = "def", !.name = n.val], "parseDef")
    /\ UNCHANGED <<input, result, last>>

\* A key that keeps the key of the definition and drops the item's name.
KeyOfDefAlone(name, subItem) == IF subItem # <<>> THEN subItem ELSE name

\* The key of the item name for the key subItem of its definition.
ItemKey(name, subItem) == IF subItem # <<>> THEN name \o <<Dot>> \o subItem ELSE name

\* ret of parseItem, lines 77-84.
ItemAnns(name, def) ==
    [k \in {ItemKey(name, subItem) : subItem \in DOMAIN def} |->
        def[CHOOSE subItem \in DOMAIN def : ItemKey(name, subItem) = k]]

\* An item that any token ends.
EndsAlways(n) == TRUE

\* The Next after a definition found the end of input or a terminator.
EndsItem(n) == n.err = IoEOF \/ n.tk.Lexeme = Semicolon \/ n.tk.Lexeme = LF

\* parseItem, lines 64-85: parseDef has returned.
parseItemEnd(p) ==
    /\ At(p, "parseItem", "def")
    /\ IF ret[p].err # Nil
       THEN tok' = tok /\ Return(p, NilMap, ret[p].err)
       ELSE \E n \in {Next(SkipWhiteUntilLine(tok[TokOf(p)]))} :
               /\ SetTok(p, n.t)
               /\ IF n.err # Nil /\ n.err # IoEOF THEN Return(p, NilMap, n.err)
                  ELSE IF ~EndsItem(n)
                       THEN Return(p, NilMap, NewUnexpectedTokenError(n.tk))
                  ELSE Return(p, MkMap(ItemAnns(Top(p).name, ret[p].val.m)), Nil)
    /\ UNCHANGED <<input, result, last>>

\* parseDef, lines 170-175: a type text.
parseDefType(p, ty) ==
    /\ SetTok(p, ty.t)
    /\ IF ty.err # Nil THEN Return(p, NilMap, ty.err)
       ELSE Return(p, MkMap(<<>> :> ty.val), Nil)

\* parseDef, lines 149-157 and 170-175: a block opens, or a type text.
parseDef(p) ==
    /\ At(p, "parseDef", "start")
    /\ \E pk \in {Peek(tok[TokOf(p)])} :
          IF pk.err # Nil
          THEN SetTok(p, pk.t) /\ Return(p, NilMap, pk.err)
          ELSE IF pk.tk.Lexeme = LBrace
               THEN /\ SetTok(p, SkipWhite(Next(pk.t).t))
                    /\ Call(p, [Top(p) EXCEPT !.pc = "list"], "parseList")
          ELSE parseDefType(p, parseType(pk.t))
    /\ UNCHANGED <<input, result, last>>

\* parseDef, lines 158-168: the nested parseList has returned.
parseDefClose(p) ==
    /\ At(p, "parseDef", "list")
    /\ IF ret[p].err # Nil
       THEN tok' = tok /\ Return(p, NilMap, ret[p].err)
       ELSE \E e \in {expect(RBrace, SkipWhite(tok[TokOf(p)]))} :
               /\ SetTok(p, e.t)
               /\ IF e.err # Nil THEN Return(p, NilMap, e.err)
                  ELSE Return(p, ret[p].val, Nil)
    /\ UNCHANGED <<input, result, last>>

-----------------------------------------------------------------------------
(* The same grammar functions run by one caller from call to return: the   *)
(* Tokenizer record after the call, the mapping and the error.             *)

\* return nil, err
FailMap(t, err) == [t |-> t, val |-> NilMap, err |-> err]

RECURSIVE parseListRun(_, _)
RECURSIVE parseItemRun(_)
RECURSIVE parseDefRun(_)

\* parseList, lines 32-53, anns the entries collected so far.
parseListRun(t, anns) ==
    LET pk == PeekAfterWhite(t)
    IN  IF pk.err # Nil /\ pk.err # IoEOF THEN FailMap(pk.t, pk.err)
        ELSE IF pk.err = IoEOF \/ ~IsNameStart(pk.tk.Lexeme) THEN Ok(pk.t, MkMap(anns))
        ELSE LET item == parseItemRun(pk.t)
             IN  IF item.err # Nil THEN FailMap(item.t, ListError(item.err))
                 ELSE parseListRun(item.t, Merge(anns, item.val.m))

\* parseItem, lines 57-85.
parseItemRun(t) ==
    LET n == parseName(t)
    IN  IF n.err # Nil THEN FailMap(n.t, n.err)
        ELSE LET def == parseDefRun(SkipWhiteUntilLine(n.t))
             IN  IF def.err # Nil THEN FailMap(def.t, def.err)
                 ELSE LET x == Next(SkipWhiteUntilLine(def.t))
                      IN  IF x.err # Nil /\ x.err # IoEOF THEN FailMap(x.t, x.err)
                          ELSE IF ~EndsItem(x)
                               THEN FailMap(x.t, NewUnexpectedTokenError(x.tk))
                          ELSE Ok(x.t, MkMap(ItemAnns(n.val, def.val.m)))

\* parseDef, lines 149-176.
parseDefRun(t) ==
    LET pk == Peek(t)
    IN  IF pk.err # Nil THEN FailMap(pk.t, pk.err)
        ELSE IF pk.tk.Lexeme = LBrace
             THEN LET l == parseListRun(SkipWhite(Next(pk.t).t), <<>>)
                  IN  IF l.err # Nil THEN FailMap(l.t, l.err)
                      ELSE LET e == expect(RBrace, SkipWhite(l.t))
                           IN  IF e.err # Nil THEN FailMap(e.t, e.err) ELSE Ok(e.t, l.val)
        ELSE LET ty == parseType(pk.t)
             IN  IF ty.err # Nil THEN FailMap(ty.t, ty.err)
                 ELSE Ok(ty.t, MkMap(<<>> :> ty.val))

\* Parse(src) run alone, lines 26-27.
ParseRun(src) == parseListRun(NewTokenizer(src), <<>>)

-----------------------------------------------------------------------------
(* Direct calls of the Tokenizer's exported methods on Tokenizer 1.         *)

CallPeek ==
    /\ 1 \in DOMAIN tok
    /\ \E p \in {Peek(tok[1])} :
          /\ tok' = [tok EXCEPT ![1] = p.t]
          /\ last' = [op |-> "Peek", tk |-> p.tk, err |-> p.err]
    /\ UNCHANGED <<input, stack, ret, result>>

CallNext ==
    /\ 1 \in DOMAIN tok
    /\ \E n \in {Next(tok[1])} :
          /\ tok' = [tok EXCEPT ![1] = n.t]
          /\ last' = [op |-> "Next", tk |-> n.tk, err |-> n.err]
    /\ UNCHANGED <<input, stack, ret, result>>

CallSkipWhite ==
    /\ 1 \in DOMAIN tok
    /\ tok' = [tok EXCEPT ![1] = SkipWhite(tok[1])]
    /\ last' = [op |-> "SkipWhite", tk |-> ZeroToken, err |-> Nil]
    /\ UNCHANGED <<input, stack, ret, result>>

CallSkipWhiteUntilLine ==
    /\ 1 \in DOMAIN tok
    /\ tok' = [tok EXCEPT ![1] = SkipWhiteUntilLine(tok[1])]
    /\ last' = [op |-> "SkipWhiteUntilLine", tk |-> ZeroToken, err |-> Nil]
    /\ UNCHANGED <<input, stack, ret, result>>

-----------------------------------------------------------------------------
(* The sources the Parse calls are given.                                  *)

\* The longest source made of arbitrary bytes of Bytes.
MaxLen == 4

\* The bytes of "a", "1", " ", "\n", ";", "{", "}", "(" and of the two-byte
\* letter U+00E9, 195 169; 195 or 169 alone is an invalid sequence.  Receivers
\* are among the sources of IncompleteSources and CompleteSources.
Bytes == {97, 49, 32, 10, 59, 123, 125, 40, 195, 169}

\* All sequences over A of length at most n.
SeqsUpTo(A, n) == UNION {[1..k -> A] : k \in 0..n}

ByteSources == SeqsUpTo(Bytes, MaxLen)

\* "Foo int"
SrcFooInt == <<70, 111, 111, 32, 105, 110, 116>>

\* "pkg { Type { Method sig } }"
SrcPkgLine == <<112, 107, 103, 32, 123, 32, 84, 121, 112, 101, 32, 123, 32, 77, 101, 116, 104, 111, 100, 32, 115, 105, 103, 32, 125, 32, 125>>

\* "(*File) { Read func(b []byte) (n int, err error) }"
SrcFileLine ==
    <<40, 42, 70, 105, 108, 101, 41, 32, 123, 32, 82, 101, 97, 100, 32, 102, 117, 110, 99, 40, 98, 32, 91, 93, 98, 121, 116, 101, 41, 32>> \o
    <<40, 110, 32, 105, 110, 116, 44, 32, 101, 114, 114, 32, 101, 114, 114, 111, 114, 41, 32, 125>>

\* "123abc int"
SrcDigits == <<49, 50, 51, 97, 98, 99, 32, 105, 110, 116>>

\* "Foo {"
SrcFooOpen == <<70, 111, 111, 32, 123>>

Examples == {SrcFooInt, SrcPkgLine, SrcFileLine, SrcDigits, SrcFooOpen}

-----------------------------------------------------------------------------
(* Sources built from the grammar, each with what Parse is to return.      *)

\* A text as the bytes of the source and as the runes they encode.
Txt(b, r) == [b |-> b, r |-> r]

\* Parse of src succeeds with the mapping m.
Case(src, m) == [src |-> src, anns |-> MkMap(m), err |-> Nil]

\* Parse of src fails with err (and a nil mapping).
FailCase(src, err) == [src |-> src, anns |-> NilMap, err |-> err]

\* The longest run of same-line white space.
MaxWs == 2

\* The longest run of terminators between two items.
MaxTerms == 2

\* The deepest nesting of blocks around an item.
MaxDepth == 2

\* The longest source made of white space and terminators only.
MaxBlank == 3

\* Runs of " " and "\t".
Ws0 == SeqsUpTo({32, 9}, MaxWs)

Ws1 == Ws0 \ {<<>>}

\* Nothing, "\n" or ";" after an item.
Ends == {<<>>, <<10>>, <<59>>}

\* "a" and "_é1".
Idents == {Txt(<<97>>, <<97>>), Txt(<<95, 195, 169, 49>>, <<95, 233, 49>>)}

\* "b", "*T", "f(x) y", "b}" and "[]é".
Cores ==
    {Txt(<<98>>, <<98>>), Txt(<<42, 84>>, <<42, 84>>),
     Txt(<<102, 40, 120, 41, 32, 121>>, <<102, 40, 120, 41, 32, 121>>),
     Txt(<<98, 125>>, <<98, 125>>), Txt(<<91, 93, 195, 169>>, <<91, 93, 233>>)}

\* One item on one line: a name, white space, a type text (with white space
\* after it), and nothing or one terminator.
OneLineCases ==
    {Case(n.b \o w \o c.b \o w2 \o e, n.r :> c.r) :
        n \in Idents, w \in Ws1, c \in Cores, w2 \in Ws0, e \in Ends}
    \cup {Case(SrcFooInt, <<70, 111, 111>> :> <<105, 110, 116>>)}

\* "pkg.Type.Method" and "sig"
PkgKey == <<112, 107, 103, 46, 84, 121, 112, 101, 46, 77, 101, 116, 104, 111, 100>>

PkgText == <<115, 105, 103>>

\* "(*File).Read" and "func(b []byte) (n int, err error)"
FileKey == <<40, 42, 70, 105, 108, 101, 41, 46, 82, 101, 97, 100>>

FileText ==
    <<102, 117, 110, 99, 40, 98, 32, 91, 93, 98, 121, 116, 101, 41, 32>> \o
    <<40, 110, 32, 105, 110, 116, 44, 32, 101, 114, 114, 32, 101, 114, 114, 111, 114, 41>>

\* "pkg { Type { Method sig;};}"
SrcPkgTerminated == <<112, 107, 103, 32, 123, 32, 84, 121, 112, 101, 32, 123, 32, 77, 101, 116, 104, 111, 100, 32, 115, 105, 103, 59, 125, 59, 125>>

\* "(*File) { Read func(b []byte) (n int, err error)\n}"
SrcFileTerminated ==
    <<40, 42, 70, 105, 108, 101, 41, 32, 123, 32, 82, 101, 97, 100, 32, 102, 117, 110, 99, 40, 98, 32, 91, 93, 98, 121, 116, 101, 41, 32>> \o
    <<40, 110, 32, 105, 110, 116, 44, 32, 101, 114, 114, 32, 101, 114, 114, 111, 114, 41, 10, 125>>

\* A block on one line, "n { m c }", its "}" on the line of the type text.
OneLineBlocks ==
    {n.b \o <<32, 123, 32>> \o m.b \o <<32>> \o c.b \o <<32, 125>> :
        n \in Idents, m \in Idents, c \in Cores}

\* "a b" and "c d"
ItemAB == <<97, 32, 98>>

ItemCD == <<99, 32, 100>>

\* One or more "\n" and ";".
TermRuns == SeqsUpTo({10, 59}, MaxTerms) \ {<<>>}

\* Two items with a run of terminators between them.
TermCases ==
    {Case(ItemAB \o run \o ItemCD, (<<97>> :> <<98>>) @@ (<<99>> :> <<100>>)) :
        run \in TermRuns}

\* "x {" k times, "\n}" k times, "x." k times.
RECURSIVE Opens(_)
Opens(k) == IF k = 0 THEN <<>> ELSE <<120, 32, 123>> \o Opens(k - 1)

RECURSIVE Closes(_)
Closes(k) == IF k = 0 THEN <<>> ELSE <<10, 125>> \o Closes(k - 1)

RECURSIVE Path(_)
Path(k) == IF k = 0 THEN <<>> ELSE <<120, 46>> \o Path(k - 1)

\* Nothing or the item "a b\n" before the place the source ends at.
Before == {<<>>, <<97, 32, 98, 10>>}

\* Sources ending inside an item: "a", "a ", "(", "( ", "(*", "(* ", "(*a",
\* "(*a ", "(*a)", "(*a) ", "a {", "a { ", "a {b c", "a {b c\n".
OpenTails ==
    {<<97>>, <<97, 32>>, <<40>>, <<40, 32>>, <<40, 42>>, <<40, 42, 32>>, <<40, 42, 97>>,
     <<40, 42, 97, 32>>, <<40, 42, 97, 41>>, <<40, 42, 97, 41, 32>>, <<97, 32, 123>>,
     <<97, 32, 123, 32>>, <<97, 32, 123, 98, 32, 99>>, <<97, 32, 123, 98, 32, 99, 10>>}

\* Sources ending at a List boundary or after a Def: "", " ", "a b", "a b ",
\* "a {}", "a { b c\n}", "(*a) b".
ClosedTails ==
    {<<>>, <<32>>, <<97, 32, 98>>, <<97, 32, 98, 32>>, <<97, 32, 123, 125>>,
     <<97, 32, 123, 32, 98, 32, 99, 10, 125>>, <<40, 42, 97, 41, 32, 98>>}

\* The input ends inside an item: inside its name or receiver, before its
\* definition, or inside a block (at any depth) that is not closed.
IncompleteSources ==
    {Opens(k) \o b \o t : k \in 0..MaxDepth, b \in Before, t \in OpenTails}
    \cup {Opens(k) \o b \o t : k \in 1..MaxDepth, b \in Before, t \in ClosedTails}
    \cup {SrcFooOpen}

\* The input ends at the boundary of the top-level List or after a Def.
CompleteSources == {b \o t : b \in Before, t \in ClosedTails}

\* Two items "a b" and "a c" of one List, k blocks deep, with the item "d e"
\* between them if mid: the key "a" (under the path) maps to "c".
DupCase(k, t, mid) ==
    Case(Opens(k) \o <<97, 32, 98>> \o t
            \o (IF mid THEN <<100, 32, 101, 10>> ELSE <<>>) \o <<97, 32, 99>> \o Closes(k),
         (Path(k) \o <<97>> :> <<99>>)
            @@ (IF mid THEN Path(k) \o <<100>> :> <<101>> ELSE <<>>))

DupCases == {DupCase(k, t, mid) : k \in 0..MaxDepth, t \in {<<10>>, <<59>>}, mid \in BOOLEAN}

\* "x {a b;}\nx {a c;}": the same path through two blocks.
SrcTwoBlocks == <<120, 32, 123, 97, 32, 98, 59, 125, 10, 120, 32, 123, 97, 32, 99, 59, 125>>

\* Sequences of " ", "\t", "\n", "\r", ";" and U+00A0.
RECURSIVE Flatten(_)
Flatten(ss) == IF ss = <<>> THEN <<>> ELSE Head(ss) \o Flatten(Tail(ss))

BlankSources ==
    {Flatten(ss) :
        ss \in SeqsUpTo({<<32>>, <<9>>, <<10>>, <<13>>, <<59>>, <<194, 160>>}, MaxBlank)}

\* Sources with an encoded U+FFFD (239 191 189), which Peek rejects too:
\* "a �", "�", "a b\n�\xFF", "1�".
ReplacementSources ==
    {<<97, 32, 239, 191, 189>>, <<239, 191, 189>>,
     <<97, 32, 98, 10, 239, 191, 189, 255>>, <<49, 239, 191, 189>>}

\* Items that do not follow the grammar: "1x y" and "-a b" (no Name), "a\nb"
\* and "(*a) \nb" (no Def on the line of the name), "(a) b" (no "*"), "(*a b"
\* (no ")"), "a {\n} b" (a token after the Def), "a {b c\n1 d\n}" (no Name, in
\* a block).
MalformedItems ==
    {<<49, 120, 32, 121>>, <<45, 97, 32, 98>>, <<97, 10, 98>>, <<40, 42, 97, 41, 32, 10, 98>>,
     <<40, 97, 41, 32, 98>>, <<40, 42, 97, 32, 98>>, <<97, 32, 123, 10, 125, 32, 98>>,
     <<97, 32, 123, 98, 32, 99, 10, 49, 32, 100, 10, 125>>}

\* One malformed item, alone or after the item "a b\n".
MalformedSources == {b \o i : b \in Before, i \in MalformedItems}

\* The mapping m of a block's List under the block's name n: every key
\* prefixed with n and ".".
Under(n, m) ==
    [k \in {n \o <<46>> \o j : j \in DOMAIN m} |-> m[SubSeq(k, Len(n) + 2, Len(k))]]

\* The names "a" and "(*T)".
NestNames == {Txt(<<97>>, <<97>>), Txt(<<40, 42, 84, 41>>, <<40, 42, 84, 41>>)}

\* An item with a type text, "n b\n", and its one entry.
NestLeaves == {[src |-> n.b \o <<32, 98, 10>>, m |-> n.r :> <<98>>] : n \in NestNames}

\* NestItems(d): the items nested at most d blocks deep, a block being
\* "n {\n" + a List + "}\n".  NestLists(d): the Lists of no item, one such
\* item, or one such item and an item with a type text after it; entries of a
\* later item replace those of an earlier one.
RECURSIVE NestLists(_)
NestItems(d) ==
    IF d = 0 THEN NestLeaves
    ELSE NestLeaves
         \cup {[src |-> n.b \o <<32, 123, 10>> \o l.src \o <<125, 10>>, m |-> Under(n.r, l.m)] :
                  n \in NestNames, l \in NestLists(d - 1)}

NestLists(d) ==
    {[src |-> <<>>, m |-> <<>>]}
    \cup NestItems(d)
    \cup {[src |-> i.src \o l.src, m |-> l.m @@ i.m] : i \in NestItems(d), l \in NestLeaves}

\* Sources of nested blocks, every item ended by "\n", each with the mapping
\* of its leaf paths.
NestCases == NestLists(MaxDepth)

\* The mapping of leaf paths of each such source.
NestExpect == [s \in {c.src : c \in NestCases} |-> (CHOOSE c \in NestCases : c.src = s).m]

\* "(*1) x"
SrcDigitReceiver == <<40, 42, 49, 41, 32, 120>>

\* Receivers whose identifier starts with a rune that is no letter and no
\* "_": "(*1) x", "(*1a) x", "(*)) x", "(*-) x".
OddReceivers ==
    {SrcDigitReceiver, <<40, 42, 49, 97, 41, 32, 120>>, <<40, 42, 41, 41, 32, 120>>,
     <<40, 42, 45, 41, 32, 120>>}

\* White space inside the parentheses of a receiver: none, " ", "\n", "\t\n ".
ReceiverWs == {<<>>, <<32>>, <<10>>, <<9, 10, 32>>}

\* "(" ws "*" ws identifier ws ")" and the definition " b".
ReceiverCases ==
    {Case(<<40>> \o w1 \o <<42>> \o w2 \o n.b \o w3 \o <<41, 32, 98>>,
          (<<40, 42>> \o n.r \o <<41>>) :> <<98>>) :
        w1 \in ReceiverWs, w2 \in ReceiverWs, w3 \in ReceiverWs, n \in Idents}

\* "(" ws x ") b" with x one of "a", ")", "(" in the place of the "*", at
\* offset o.
NoStarSources ==
    {[src |-> <<40>> \o w \o <<x>> \o <<41, 32, 98>>, o |-> 1 + Len(w)] :
        w \in ReceiverWs, x \in {97, 41, 40}}

\* "(*a" ws x " b" with x one of ";", "*", "{" in the place of the ")", at
\* offset o.
NoCloseSources ==
    {[src |-> <<40, 42, 97>> \o w \o <<x>> \o <<32, 98>>, o |-> 3 + Len(w)] :
        w \in ReceiverWs, x \in {59, 42, 123}}

\* "a_b c": the identifier ends before the "_".
SrcUnderscoreInside == <<97, 95, 98, 32, 99>>

\* "a  f(x, y) {b|c} \n" and its type text "f(x, y) {b|c}".
SrcSignature == <<97, 32, 32, 102, 40, 120, 44, 32, 121, 41, 32, 123, 98, 124, 99, 125, 32, 10>>

TextSignature == <<102, 40, 120, 44, 32, 121, 41, 32, 123, 98, 124, 99, 125>>

Families ==
    OddReceivers \cup {SrcUnderscoreInside, SrcSignature} \cup
    {c.src : c \in ReceiverCases \cup NoStarSources \cup NoCloseSources} \cup
    {c.src : c \in NestCases} \cup
    {c.src : c \in OneLineCases \cup TermCases \cup DupCases}
    \cup OneLineBlocks \cup IncompleteSources \cup CompleteSources \cup BlankSources
    \cup ReplacementSources \cup {SrcPkgTerminated, SrcFileTerminated, SrcTwoBlocks}
    \cup MalformedSources

Sources == ByteSources \cup Examples \cup Families

-----------------------------------------------------------------------------
(* The parser: every Parse call runs to its return.                        *)

NoCall == [op |-> "none", tk |-> ZeroToken, err |-> Nil]

Init ==
    /\ input \in [{1} -> Sources]
    /\ tok = <<>>
    /\ stack = [p \in {1} |-> <<>>]
    /\ ret = [p \in {1} |-> [val |-> NilMap, err |-> Nil]]
    /\ result = [p \in {1} |-> [returned |-> FALSE, anns |-> NilMap, err |-> Nil]]
    /\ last = NoCall

Step(p) ==
    \/ ParseCall(p)
    \/ parseList(p)
    \/ parseListMerge(p)
    \/ parseItem(p)
    \/ parseItemEnd(p)
    \/ parseDef(p)
    \/ parseDefClose(p)
    \/ ParseReturn(p)

\* The callers of Parse there can be; those of a behaviour are DOMAIN input.
Callers == {1, 2}

NextStep == \E p \in Callers : Step(p)

Spec == Init /\ [][NextStep]_vars

\* A Parse call that has not returned: it is not yet made, or it has a frame
\* on its stack, and Step has an action for either.
CanStep == \E p \in DOMAIN input : stack[p] # <<>> \/ ~result[p].returned

\* Parse is synchronous code: a call that has not returned goes on.  This is
\* WF_vars(NextStep) with ENABLED <<NextStep>>_vars written out as CanStep.
SpecFair == Init /\ [][NextStep]_vars /\ ([]<>(~CanStep) \/ []<><<NextStep>>_vars)

-----------------------------------------------------------------------------
(* Two Parse calls at once, each on its own source, their steps            *)
(* interleaved in every order.                                             *)

\* "", "a b", "a", "a\nb", "a" + the byte 169, "1x y", "(*a) b\nc d",
\* "a {\nb c\n}", "x {a b;}\nx {a c;}" and "a {b {c d\n}".
PairSources ==
    {<<>>, <<97, 32, 98>>, <<97>>, <<97, 10, 98>>, <<97, 32, 169>>, <<49, 120, 32, 121>>,
     <<40, 42, 97, 41, 32, 98, 10, 99, 32, 100>>, <<97, 32, 123, 10, 98, 32, 99, 10, 125>>,
     SrcTwoBlocks, <<97, 32, 123, 98, 32, 123, 99, 32, 100, 10, 125>>}

InitPair ==
    /\ input \in [Callers -> PairSources]
    /\ tok = <<>>
    /\ stack = [p \in Callers |-> <<>>]
    /\ ret = [p \in Callers |-> [val |-> NilMap, err |-> Nil]]
    /\ result = [p \in Callers |-> [returned |-> FALSE, anns |-> NilMap, err |-> Nil]]
    /\ last = NoCall

SpecPair == InitPair /\ [][NextStep]_vars

-----------------------------------------------------------------------------
(* The Tokenizer alone: any sequence of calls of its exported methods.     *)

\* The longest source of the Tokenizer driven directly.
MaxTokLen == 4

\* The bytes of "a", " ", "\n", "\t" and of U+00E9 (195 169), and the byte 255.
TokBytes == {97, 32, 10, 9, 195, 169, 255}

\* Sources with runes of three and four bytes: U+FFFD (239 191 189) alone,
\* after "a", after " \n" and before "a"; U+20AC (226 130 172) alone, cut
\* short, and before "\n", U+FFFD and 255; U+1F600 (240 159 152 128) before
\* "a"; a surrogate (237 160 128) after "\n \t"; an overlong "/" (192 175).
EncodedSources ==
    {<<239, 191, 189>>, <<97, 239, 191, 189>>, <<32, 10, 239, 191, 189>>,
     <<239, 191, 189, 97>>, <<226, 130, 172>>, <<226, 130>>,
     <<226, 130, 172, 10, 239, 191, 189, 255>>, <<240, 159, 152, 128, 97>>,
     <<10, 32, 9, 237, 160, 128>>, <<192, 175>>}

TokSources == SeqsUpTo(TokBytes, MaxTokLen) \cup EncodedSources

InitTok ==
    /\ input = <<>>
    /\ tok \in [{1} -> {NewTokenizer(s) : s \in TokSources}]
    /\ stack = <<>>
    /\ ret = <<>>
    /\ result = <<>>
    /\ last = NoCall

NextTok == CallPeek \/ CallNext \/ CallSkipWhite \/ CallSkipWhiteUntilLine

SpecTok == InitTok /\ [][NextTok]_vars

-----------------------------------------------------------------------------
(* Positions, counted on the source itself.  The bytes before a consumed   *)
(* offset are valid UTF-8: a byte 10 is a line feed, and a rune starts at  *)
(* every byte that is not a continuation byte (128..191).                  *)

\* The offset right after the last line feed before offset o (0 if none).
LineStart(s, o) ==
    LET ends == {i \in 1..o : s[i] = 10}
    IN  IF ends = {} THEN 0 ELSE CHOOSE i \in ends : \A j \in ends : j <= i

\* 1 plus the number of line feeds before offset o.
LineAt(s, o) == 1 + Cardinality({i \in 1..o : s[i] = 10})

\* 1 plus the number of runes between the last line feed and offset o.
ColAt(s, o) == 1 + Cardinality({i \in (LineStart(s, o) + 1)..o : s[i] \notin 128..191})

-----------------------------------------------------------------------------
(* C9: every token the tokenizer returns has Line = 1 + the number of line *)
(* feeds consumed before it and Col = 1 + the number of runes (not bytes)  *)
(* consumed since the last line feed, and the tokenizer's own line and     *)
(* column agree with the source at its offset: after Next consumes a line  *)
(* feed the line is one more and the next token's Col is 1.                *)
C9_LineAndCol ==
    1 \in DOMAIN tok =>
        /\ tok[1].line = LineAt(tok[1].src, tok[1].bytePos)
        /\ col(tok[1]) = ColAt(tok[1].src, tok[1].bytePos)
        /\ (last.op \in {"Peek", "Next"} /\ last.err = Nil) =>
              /\ last.tk.Line = LineAt(tok[1].src, last.tk.BytePos)
              /\ last.tk.Col = ColAt(tok[1].src, last.tk.BytePos)
              /\ last.tk.Lexeme = LF /\ last.op = "Next" =>
                    /\ tok[1].line = last.tk.Line + 1
                    /\ col(tok[1]) = 1

\* Next has returned a token of line 2 whose column (2) is not its byte
\* offset in the line (3): a two-byte rune precedes it.
C9_Witness ==
    /\ 1 \in DOMAIN tok
    /\ last.op = "Next" /\ last.err = Nil
    /\ last.tk.Line = 2 /\ last.tk.Col = 2
    /\ last.tk.BytePos - LineStart(tok[1].src, last.tk.BytePos) = 2

-----------------------------------------------------------------------------
(* C10: Peek is idempotent and consumes nothing: a Peek leaves bytePos,    *)
(* runePos, line and lastLinePos as they are, a Peek after a Peek returns  *)
(* the same token or error, the Next after a Peek returns what the Peek    *)
(* returned, and after Next the lookahead slot is empty.                   *)
C10_PeekIdempotent ==
    [][1 \in DOMAIN tok =>
        /\ last'.op = "Peek" =>
              /\ tok'[1].bytePos = tok[1].bytePos
              /\ tok'[1].runePos = tok[1].runePos
              /\ tok'[1].line = tok[1].line
              /\ tok'[1].lastLinePos = tok[1].lastLinePos
        /\ (last.op = "Peek" /\ last'.op \in {"Peek", "Next"}) =>
              /\ last'.tk = last.tk
              /\ last'.err = last.err
        /\ (last.op = "Peek" /\ last'.op = "Peek") => tok' = tok
        /\ last'.op = "Next" => tok'[1].lookahead = ZeroToken]_vars

\* A Peek has cached a token after part of the source was consumed.
C10_Witness ==
    /\ 1 \in DOMAIN tok
    /\ last.op = "Peek" /\ last.err = Nil
    /\ tok[1].lookahead = last.tk /\ last.tk.Size = 2
    /\ tok[1].bytePos > 0

-----------------------------------------------------------------------------
(* What the Parse call of caller p has returned, as a Case.                 *)

Returned(p) == p \in DOMAIN result /\ result[p].returned

Got(p) == [src |-> input[p], anns |-> result[p].anns, err |-> result[p].err]

\* The Tokenizer of caller p's Parse call.
TokAt(p) == tok[TokOf(p)]

-----------------------------------------------------------------------------
(* C1: a source of one item on one line (an identifier, same-line white    *)
(* space, a type text, then nothing or one terminator) parses to the       *)
(* one-entry mapping from the name to the type text trimmed of white       *)
(* space; "Foo int" gives {"Foo": "int"}.                                  *)
C1_OneItemOneLine ==
    Returned(1) => \A c \in OneLineCases : input[1] = c.src => Got(1) = c

\* Parse has returned {"_é1": "[]é"} for "_é1 \t[]é \t;".
C1_Witness ==
    /\ Returned(1)
    /\ input[1] = <<95, 195, 169, 49, 32, 9, 91, 93, 195, 169, 32, 9, 59>>
    /\ result[1].err = Nil
    /\ result[1].anns = MkMap(<<95, 233, 49>> :> <<91, 93, 233>>)

-----------------------------------------------------------------------------
(* C2 as claimed: in a block on one line the "}" after a type text closes  *)
(* the block: "pkg { Type { Method sig } }" gives {"pkg.Type.Method":      *)
(* "sig"} and SrcFileLine, the block of a Read item under the pointer       *)
(* receiver File, gives {FileKey: "func(b []byte) (n int, err error)"}.    *)
C2_BraceClosesOnLine ==
    Returned(1) =>
        /\ input[1] = SrcPkgLine => Got(1) = Case(SrcPkgLine, PkgKey :> PkgText)
        /\ input[1] = SrcFileLine => Got(1) = Case(SrcFileLine, FileKey :> FileText)

(* C2 as amended: a "}" on the line of a type text is part of the type     *)
(* text, which runs to the next "\n", ";" or the end of the input, so the  *)
(* block is not closed and Parse of a block written on one line fails with *)
(* EOF; with a terminator between the type text and each "}" the same      *)
(* sources give {"pkg.Type.Method": "sig"} and {FileKey: "func(b []byte)   *)
(* (n int, err error)"}.                                                   *)
C2_BraceNeedsTerminator ==
    Returned(1) =>
        /\ input[1] \in OneLineBlocks \cup {SrcPkgLine, SrcFileLine}
              => Got(1) = FailCase(input[1], EOF)
        /\ input[1] = SrcPkgTerminated => Got(1) = Case(SrcPkgTerminated, PkgKey :> PkgText)
        /\ input[1] = SrcFileTerminated
              => Got(1) = Case(SrcFileTerminated, FileKey :> FileText)

\* Parse has returned {"pkg.Type.Method": "sig"} for the terminated source.
C2_Witness ==
    /\ Returned(1)
    /\ input[1] = SrcPkgTerminated
    /\ result[1].anns = MkMap(PkgKey :> PkgText)

-----------------------------------------------------------------------------
(* C3 as claimed: two items with any run of one or more "\n" and ";"       *)
(* between them parse to the same mapping, which holds the entries of both *)
(* items.                                                                  *)
C3_TerminatorRuns ==
    Returned(1) => \A c \in TermCases : input[1] = c.src => Got(1) = c

-----------------------------------------------------------------------------
(* C4 as claimed: Parse of "123abc int" fails with an UnexpectedTokenError *)
(* whose token is the "1" at line 1, column 1, and a source that starts    *)
(* with a digit never parses successfully.                                 *)
C4_DigitNameFails ==
    Returned(1) =>
        /\ input[1] = SrcDigits =>
              result[1].err =
                  NewUnexpectedTokenError([Lexeme |-> 49, Line |-> 1, Col |-> 1, Size |-> 1,
                                           BytePos |-> 0, RunePos |-> 0])
        /\ (input[1] # <<>> /\ IsDigit(input[1][1])) => result[1].err # Nil

-----------------------------------------------------------------------------
(* C5: when the input ends inside an item (after a name with no            *)
(* definition, inside a receiver, or inside a block that is not closed)    *)
(* Parse fails with EOF and a nil mapping; when it ends at the boundary of *)
(* the top-level List or right after a definition Parse succeeds; and      *)
(* Parse fails with EOF only with the whole input consumed.                *)
C5_Truncation ==
    Returned(1) =>
        /\ input[1] \in IncompleteSources => Got(1) = FailCase(input[1], EOF)
        /\ input[1] \in CompleteSources => result[1].err = Nil /\ ~result[1].anns.nil
        /\ result[1].err = EOF => TokAt(1).bytePos = Len(input[1])

\* Parse has returned EOF for "Foo {".
C5_Witness ==
    /\ Returned(1)
    /\ input[1] = SrcFooOpen
    /\ result[1].err = EOF
    /\ TokAt(1).bytePos = 5

-----------------------------------------------------------------------------
(* The first offset from o on at which the bytes do not decode to a rune   *)
(* (-1 if none): invalid alone, or also an encoded U+FFFD.                 *)

RECURSIVE FirstBadFrom(_, _, _)
FirstBadFrom(s, o, alsoReplacement) ==
    IF o >= Len(s) THEN -1
    ELSE IF DecodeRuneInString(s, o).r = RuneError
            /\ (alsoReplacement \/ DecodeRuneInString(s, o).size = 1)
         THEN o
    ELSE FirstBadFrom(s, o + DecodeRuneInString(s, o).size, alsoReplacement)

FirstInvalid(s) == FirstBadFrom(s, 0, FALSE)

FirstRejected(s) == FirstBadFrom(s, 0, TRUE)

(* C6 as claimed: every source with an invalid byte sequence makes Parse   *)
(* fail with a UTF8Error whose Line and Col are the line and the rune      *)
(* column of the first invalid byte.                                       *)
C6_InvalidAlwaysReported ==
    (Returned(1) /\ FirstInvalid(input[1]) >= 0) =>
        result[1].err = NewUTF8Error(LineAt(input[1], FirstInvalid(input[1])),
                                     ColAt(input[1], FirstInvalid(input[1])))

(* C6 as amended: Parse of a source with a byte sequence that Peek rejects *)
(* (an invalid one, or an encoded U+FFFD) never consumes that sequence: it *)
(* fails with a UTF8Error whose Line and Col are the line and the rune     *)
(* column of the first such sequence, unless the parse has ended before    *)
(* reaching it, with an UnexpectedTokenError for an earlier token or with  *)
(* success at an earlier top-level token that cannot start a name; and     *)
(* Parse returns a UTF8Error for no other source.                          *)
C6_InvalidReportedWhenReached ==
    Returned(1) =>
        /\ FirstRejected(input[1]) >= 0 =>
              \/ /\ result[1].err = NewUTF8Error(LineAt(input[1], FirstRejected(input[1])),
                                                 ColAt(input[1], FirstRejected(input[1])))
                 /\ result[1].anns = NilMap
                 /\ TokAt(1).bytePos = FirstRejected(input[1])
              \/ /\ result[1].err.kind = "UnexpectedTokenError"
                 /\ result[1].err.Token.BytePos < FirstRejected(input[1])
                 /\ TokAt(1).bytePos <= FirstRejected(input[1])
              \/ /\ result[1].err = Nil
                 /\ TokAt(1).bytePos < FirstRejected(input[1])
                 /\ ~IsNameStart(DecodeRuneInString(input[1], TokAt(1).bytePos).r)
        /\ result[1].err.kind = "UTF8Error" => FirstRejected(input[1]) >= 0

\* Parse has returned a UTF8Error at line 2, column 2 for a source whose
\* invalid byte is 3 bytes into line 2.
C6_Witness ==
    /\ Returned(1)
    /\ result[1].err = NewUTF8Error(2, 2)
    /\ FirstInvalid(input[1]) - LineStart(input[1], FirstInvalid(input[1])) = 2

-----------------------------------------------------------------------------
(* C7: when two items of one parse give the same key (at the top level or  *)
(* under the same enclosing names) the mapping holds the type text of the  *)
(* later item, and Parse returns no error.                                 *)
C7_LastWriteWins ==
    Returned(1) =>
        /\ \A c \in DupCases : input[1] = c.src => Got(1) = c
        /\ input[1] = SrcTwoBlocks
              => Got(1) = Case(SrcTwoBlocks, <<120, 46, 97>> :> <<99>>)

\* Parse has returned {"x.x.a": "c", "x.x.d": "e"} for
\* "x {x {a b\nd e\na c\n}\n}".
C7_Witness ==
    /\ Returned(1)
    /\ input[1] = DupCase(2, <<10>>, TRUE).src
    /\ result[1].err = Nil
    /\ result[1].anns.m[<<120, 46, 120, 46, 97>>] = <<99>>
    /\ DOMAIN result[1].anns.m = {<<120, 46, 120, 46, 97>>, <<120, 46, 120, 46, 100>>}

-----------------------------------------------------------------------------
(* C8: a source of white space and terminators only (the empty source      *)
(* too) parses to the empty mapping, with no error.                        *)
C8_BlankSource ==
    (Returned(1) /\ input[1] \in BlankSources) => Got(1) = Case(input[1], <<>>)

\* Parse has returned the empty mapping for "\n;" and U+00A0.
C8_Witness ==
    /\ Returned(1)
    /\ input[1] = <<10, 59, 194, 160>>
    /\ result[1].err = Nil
    /\ result[1].anns = MkMap(<<>>)

-----------------------------------------------------------------------------
(* C11 as claimed: the first error ends the parse: Parse returns it with a *)
(* nil mapping, nothing is consumed after the token or the end of input    *)
(* the error is about, and a source with one malformed item never parses   *)
(* successfully.                                                           *)
C11_FirstErrorFailsParse ==
    Returned(1) =>
        /\ result[1].err # Nil =>
              /\ result[1].anns = NilMap
              /\ result[1].err.kind = "UnexpectedTokenError" =>
                    TokAt(1).bytePos = result[1].err.Token.BytePos + result[1].err.Token.Size
              /\ result[1].err = EOF => TokAt(1).bytePos = Len(input[1])
        /\ input[1] \in MalformedSources => result[1].err # Nil

(* C11, the part that holds of the code: once a grammar function has       *)
(* returned an error, no step of the parse moves the tokenizer, every      *)
(* caller hands the error on with a nil mapping (parseList turning io.EOF  *)
(* into EOF), and Parse returns it.                                        *)
C11_ErrorIsHandedOn ==
    [][(1 \in DOMAIN ret /\ ret[1].err # Nil) =>
          /\ tok' = tok
          /\ ret'[1].val = NilMap
          /\ ret'[1].err \in {ret[1].err, ListError(ret[1].err)}
          /\ result'[1].returned =>
                /\ result'[1].err = ret[1].err
                /\ result'[1].anns = NilMap]_vars

-----------------------------------------------------------------------------
(* C12: two Parse calls that run at once on their own sources share no     *)
(* state: in every interleaving of their steps each call returns the       *)
(* mapping or the error it returns when run alone, its Tokenizer ending    *)
(* where it ends when run alone, and no step of one call changes the       *)
(* Tokenizer, the stack or the result of the other.                        *)
C12_CallsAreIndependent ==
    /\ [](\A p \in Callers :
            Returned(p) =>
                /\ result[p].anns = ParseRun(input[p]).val
                /\ result[p].err = ParseRun(input[p]).err
                /\ TokAt(p) = ParseRun(input[p]).t)
    /\ [][\A p \in Callers :
            (stack'[p] = stack[p] /\ result'[p] = result[p]) =>
                /\ ret'[p] = ret[p]
                /\ p \in DOMAIN tok => tok'[p] = tok[p]]_vars

\* Call 1 has returned {"(*a)": "b", "c": "d"} while call 2, on another
\* source, is inside a block.
C12_Witness ==
    /\ Returned(1)
    /\ result[1].anns = MkMap((<<40, 42, 97, 41>> :> <<98>>) @@ (<<99>> :> <<100>>))
    /\ 2 \in DOMAIN tok
    /\ ~Returned(2)
    /\ Len(stack[2]) > 3
    /\ tok[2].bytePos > 0

-----------------------------------------------------------------------------
(* C13: for a source of nested blocks in which every item is ended by a    *)
(* "\n", Parse succeeds and the keys of the mapping are exactly the leaf   *)
(* paths: the names of the enclosing blocks and the item's own name joined *)
(* by ".", a receiver in its canonical form, a top-level item under its   *)
(* bare name; and every "}" of the source has been consumed.               *)
C13_KeysAreLeafPaths ==
    (Returned(1) /\ input[1] \in DOMAIN NestExpect) =>
        /\ Got(1) = Case(input[1], NestExpect[input[1]])
        /\ TokAt(1).bytePos = Len(input[1])

\* Parse has returned {"a.(*T).a": "b", "a.(*T).(*T)": "b", "(*T)": "b"} for
\* "a {\n(*T) {\na b\n(*T) b\n}\n}\n(*T) b\n".
C13_Witness ==
    /\ Returned(1)
    /\ input[1] \in DOMAIN NestExpect
    /\ result[1].err = Nil
    /\ DOMAIN result[1].anns.m =
          {<<97, 46, 40, 42, 84, 41, 46, 97>>, <<97, 46, 40, 42, 84, 41, 46, 40, 42, 84, 41>>,
           <<40, 42, 84, 41>>}

-----------------------------------------------------------------------------
(* The offset of the first rune from offset o on that is a "\n" or is not  *)
(* white space, or the length of s if there is none; an offset whose bytes *)
(* do not decode counts as not white space.                                *)

RECURSIVE SameLineEnd(_, _)
SameLineEnd(s, o) ==
    IF o >= Len(s) THEN Len(s)
    ELSE IF DecodeRuneInString(s, o).r = LF \/ ~IsSpace(DecodeRuneInString(s, o).r) THEN o
    ELSE SameLineEnd(s, o + DecodeRuneInString(s, o).size)

-----------------------------------------------------------------------------
(* Where a name ends in the source.                                        *)

\* The number of bytes of the UTF-8 encoding of the rune r.
RuneLen(r) == IF r < 128 THEN 1 ELSE IF r < 2048 THEN 2 ELSE IF r < 65536 THEN 3 ELSE 4

RECURSIVE BytesLen(_)
BytesLen(rs) == IF rs = <<>> THEN 0 ELSE RuneLen(Head(rs)) + BytesLen(Tail(rs))

\* A byte of s that is no white space.
IsInkByte(b) == b >= 128 \/ ~IsSpace(b)

\* The offset right after the name that starts at offset o of s and was
\* parsed as name: after its runes, or, for a receiver, after the ")" that
\* has between the "(" and itself the rest of the name and white space.
NameEnd(s, o, name) ==
    IF Head(name) = LParen
    THEN CHOOSE e \in (o + 1)..Len(s) :
            /\ s[e] = RParen
            /\ Len(SelectSeq(SubSeq(s, o + 2, e - 1), IsInkByte)) = BytesLen(name) - 2
    ELSE o + BytesLen(name)

(* C15: a definition begins on the line of its name.  After a name,        *)
(* parseItem skips white space up to, and never over, a "\n": the          *)
(* tokenizer stops on the line the name ends on.  When the first token     *)
(* after the name and that white space is a "\n" or a ";", parseDef        *)
(* returns an UnexpectedTokenError with that token at its own line and     *)
(* column, even if a Def follows on the next line: "a\nb" fails with the   *)
(* "\n" at line 1, column 2, and "a ;a" with the ";" at line 1, column 3.  *)
C15_DefOnTheLineOfItsName ==
    /\ [][(At(1, "parseItem", "start") /\ stack'[1] # <<>> /\ Head(stack'[1]).fn = "parseDef") =>
            LET e == NameEnd(input[1], tok[1].bytePos, stack'[1][2].name)
            IN  /\ tok'[1].bytePos = SameLineEnd(input[1], e)
                /\ tok'[1].line = LineAt(input[1], e)]_vars
    /\ [][(/\ At(1, "parseDef", "start")
           /\ tok[1].bytePos < Len(input[1])
           /\ ByteAt(input[1], tok[1].bytePos) \in {LF, Semicolon}) =>
            ret'[1].err =
                NewUnexpectedTokenError(
                    [Lexeme |-> ByteAt(input[1], tok[1].bytePos), Size |-> 1,
                     BytePos |-> tok[1].bytePos, RunePos |-> tok[1].runePos,
                     Line |-> LineAt(input[1], tok[1].bytePos),
                     Col |-> ColAt(input[1], tok[1].bytePos)])]_vars
    /\ [](Returned(1) =>
            /\ input[1] = <<97, 10, 98>> =>
                  Got(1) = FailCase(input[1],
                               NewUnexpectedTokenError(
                                   [Lexeme |-> LF, Line |-> 1, Col |-> 2, Size |-> 1,
                                    BytePos |-> 1, RunePos |-> 1]))
            /\ input[1] = <<97, 32, 59, 97>> =>
                  Got(1) = FailCase(input[1],
                               NewUnexpectedTokenError(
                                   [Lexeme |-> Semicolon, Line |-> 1, Col |-> 3, Size |-> 1,
                                    BytePos |-> 2, RunePos |-> 2])))

\* Parse has returned the error for the "\n" that follows a receiver and a
\* space: white space was skipped, the "\n" was not.
C15_Witness ==
    /\ Returned(1)
    /\ result[1].err.kind = "UnexpectedTokenError"
    /\ result[1].err.Token.Lexeme = LF
    /\ result[1].err.Token.BytePos >= 2
    /\ ByteAt(input[1], result[1].err.Token.BytePos - 1) = 32
    /\ ByteAt(input[1], result[1].err.Token.BytePos - 2) = RParen

-----------------------------------------------------------------------------
(* The form of a key: names joined by ".", a name being an identifier,     *)
(* (letter | "_") (letter | digit)*, or a receiver: "(", "*", an           *)
(* identifier, ")".                                                        *)

IsIdent(rs) ==
    /\ rs # <<>>
    /\ rs[1] = Underscore \/ IsLetter(rs[1])
    /\ \A i \in 2..Len(rs) : IsLetter(rs[i]) \/ IsDigit(rs[i])

IsName(rs) ==
    \/ IsIdent(rs)
    \/ /\ Len(rs) >= 4
       /\ rs[1] = LParen /\ rs[2] = Star /\ rs[Len(rs)] = RParen
       /\ IsIdent(SubSeq(rs, 3, Len(rs) - 1))

RECURSIVE IsPath(_)
IsPath(k) ==
    \/ IsName(k)
    \/ \E i \in 2..(Len(k) - 1) :
          /\ k[i] = Dot
          /\ IsName(SubSeq(k, 1, i - 1))
          /\ IsPath(SubSeq(k, i + 1, Len(k)))

(* C16 as claimed: an identifier, as a Name or inside a Receiver, starts   *)
(* with a letter or "_" or the parse fails with a syntax error, and goes   *)
(* on with letters and digits only: every name in a key of a successful    *)
(* mapping is (letter | "_") (letter | digit)*, alone or inside the        *)
(* parentheses of a receiver, and Parse of a receiver of "1" followed by   *)
(* " x" fails with an UnexpectedTokenError for the "1".                    *)
C16_IdentifiersWellFormed ==
    Returned(1) =>
        /\ result[1].err = Nil => \A k \in DOMAIN result[1].anns.m : IsPath(k)
        /\ input[1] = SrcDigitReceiver =>
              /\ result[1].err.kind = "UnexpectedTokenError"
              /\ result[1].err.Token.Lexeme = 49

(* C16, the part that holds of the code: a name that is no receiver is an  *)
(* identifier, a key is malformed only by the first rune of a receiver's   *)
(* identifier, and a "_" after the first rune ends the identifier: "a_b c" *)
(* gives {"a": "_b c"}.                                                    *)
C16_NamesOutsideReceivers ==
    Returned(1) =>
        /\ result[1].err = Nil =>
              \A k \in DOMAIN result[1].anns.m :
                  \/ IsPath(k)
                  \/ \E i \in 1..(Len(k) - 2) :
                        k[i] = LParen /\ k[i + 1] = Star /\ ~IsIdentStart(k[i + 2])
        /\ input[1] = SrcUnderscoreInside =>
              Got(1) = Case(SrcUnderscoreInside, <<97>> :> <<95, 98, 32, 99>>)

-----------------------------------------------------------------------------
\* The Token of the one-byte rune at offset o of src, all bytes before it
\* being one-byte runes.
AsciiTokenAt(src, o) ==
    [Lexeme |-> ByteAt(src, o), Size |-> 1, BytePos |-> o, RunePos |-> o,
     Line |-> LineAt(src, o), Col |-> ColAt(src, o)]

(* C17: a receiver with any white space, line feeds too, after its "(",    *)
(* after its "*" and before its ")" is accepted and gives the name "(",    *)
(* "*", identifier, ")" with no white space in it; a token that is not "*" *)
(* after the "(", or not ")" after the identifier, fails the parse with an *)
(* UnexpectedTokenError carrying that token.                               *)
C17_Receiver ==
    Returned(1) =>
        /\ \A c \in ReceiverCases : input[1] = c.src => Got(1) = c
        /\ \A c \in NoStarSources \cup NoCloseSources :
              input[1] = c.src =>
                  Got(1) = FailCase(c.src, NewUnexpectedTokenError(AsciiTokenAt(c.src, c.o)))

\* Parse has returned {"(*_é1)": "b"} for "(\t\n *\n_é1\t\n ) b".
C17_Witness ==
    /\ Returned(1)
    /\ input[1] = <<40, 9, 10, 32, 42, 10, 95, 195, 169, 49, 9, 10, 32, 41, 32, 98>>
    /\ result[1].err = Nil
    /\ result[1].anns = MkMap(<<40, 42, 95, 233, 49, 41>> :> <<98>>)

-----------------------------------------------------------------------------
(* The offset of the first rune from offset o on that is not white space,  *)
(* or the length of s if there is none.                                    *)

RECURSIVE WhiteEnd(_, _)
WhiteEnd(s, o) ==
    IF o >= Len(s) THEN Len(s)
    ELSE IF ~IsSpace(DecodeRuneInString(s, o).r) THEN o
    ELSE WhiteEnd(s, o + DecodeRuneInString(s, o).size)

(* C18: parseList skips white space and returns its mapping with no error  *)
(* when the input is at its end or the next token is not "(", "_" or a     *)
(* letter, and it does not consume that token.  So when a nested parseList *)
(* has returned to parseDef, the tokenizer's next token is the token the   *)
(* List stopped at, and parseDef consumes it if it is the "}".             *)
C18_ListLeavesStopToken ==
    /\ [][At(1, "parseList", "start") =>
            LET q == WhiteEnd(input[1], tok[1].bytePos)
                d == DecodeRuneInString(input[1], q)
            IN  /\ tok'[1].bytePos = q
                /\ IF q < Len(input[1]) /\ d.r = RuneError
                   THEN stack'[1] = Tail(stack[1]) /\ ret'[1].err.kind = "UTF8Error"
                   ELSE IF q >= Len(input[1]) \/ ~(d.r \in {LParen, Underscore} \/ IsLetter(d.r))
                        THEN /\ stack'[1] = Tail(stack[1])
                             /\ ret'[1] = [val |-> MkMap(Top(1).anns), err |-> Nil]
                   ELSE Head(stack'[1]).fn = "parseItem"]_vars
    /\ []((At(1, "parseDef", "list") /\ ret[1].err = Nil) =>
            \/ tok[1].bytePos = Len(input[1])
            \/ /\ Peek(tok[1]).tk.BytePos = tok[1].bytePos
               /\ Peek(tok[1]).tk.Lexeme = DecodeRuneInString(input[1], tok[1].bytePos).r
               /\ ~IsSpace(Peek(tok[1]).tk.Lexeme)
               /\ ~(Peek(tok[1]).tk.Lexeme \in {LParen, Underscore} \/ IsLetter(Peek(tok[1]).tk.Lexeme)))
    /\ [][(/\ At(1, "parseDef", "list") /\ ret[1].err = Nil
           /\ tok[1].bytePos < Len(input[1])
           /\ ByteAt(input[1], tok[1].bytePos) = RBrace) =>
            /\ ret'[1] = [val |-> ret[1].val, err |-> Nil]
            /\ tok'[1].bytePos = tok[1].bytePos + 1]_vars

\* A nested parseList has returned two entries to parseDef, and the next
\* token is the "}" it stopped at.
C18_Witness ==
    /\ At(1, "parseDef", "list")
    /\ ret[1].err = Nil
    /\ Cardinality(DOMAIN ret[1].val.m) = 2
    /\ tok[1].lookahead.Lexeme = RBrace
    /\ tok[1].lookahead.BytePos = tok[1].bytePos

-----------------------------------------------------------------------------
(* The runes of s from offset o up to the next "\n" or ";" or the end.     *)

RECURSIVE RunTo(_, _)
RunTo(s, o) ==
    IF o >= Len(s) \/ DecodeRuneInString(s, o).r \in {LF, Semicolon} THEN <<>>
    ELSE <<DecodeRuneInString(s, o).r>> \o RunTo(s, o + DecodeRuneInString(s, o).size)

\* w is run without the white space at its two ends.
IsTrimOf(w, run) ==
    \E i \in 1..Len(run) : \E j \in i..Len(run) :
        /\ w = SubSeq(run, i, j)
        /\ ~IsSpace(run[i]) /\ ~IsSpace(run[j])
        /\ \A k \in (1..(i - 1)) \cup ((j + 1)..Len(run)) : IsSpace(run[k])

(* C19: every type text of a successful mapping is non-empty, has no white *)
(* space at its ends, holds no "\n" and no ";" and does not start with     *)
(* "{"; and the type text parseDef returns is the run of the source's      *)
(* runes from the first rune of the Def up to the next "\n", ";" or the    *)
(* end of the input, as they are, less the white space at its end:         *)
(* "a  f(x, y) {b|c} \n" gives {"a": "f(x, y) {b|c}"}.                     *)
C19_TypeText ==
    /\ []((Returned(1) /\ result[1].err = Nil) =>
            /\ \A k \in DOMAIN result[1].anns.m :
                  LET v == result[1].anns.m[k]
                  IN  /\ v # <<>>
                      /\ ~IsSpace(v[1]) /\ ~IsSpace(v[Len(v)])
                      /\ v[1] # LBrace
                      /\ \A i \in 1..Len(v) : v[i] # LF /\ v[i] # Semicolon
            /\ input[1] = SrcSignature => Got(1) = Case(SrcSignature, <<97>> :> TextSignature))
    /\ [][(At(1, "parseDef", "start") /\ stack'[1] = Tail(stack[1]) /\ ret'[1].err = Nil) =>
            /\ DOMAIN ret'[1].val.m = {<<>>}
            /\ IsTrimOf(ret'[1].val.m[<<>>], RunTo(input[1], tok[1].bytePos))
            /\ tok'[1].bytePos =
                  tok[1].bytePos + BytesLen(RunTo(input[1], tok[1].bytePos))]_vars

\* Parse has returned a type text with "(", ",", "{", "|" and white space
\* inside, less the white space that followed it in the source.
C19_Witness ==
    /\ Returned(1)
    /\ input[1] = SrcSignature
    /\ result[1].err = Nil
    /\ result[1].anns.m[<<97>>] = TextSignature

-----------------------------------------------------------------------------
\* The number of runes that start in the first o bytes of s.
RunesBefore(s, o) == Cardinality({i \in 1..o : s[i] \notin 128..191})

(* C20: Parse terminates on every source.  The tokenizer never moves back  *)
(* or past the end of the source and has consumed as many runes as start   *)
(* in the bytes behind it; a Next that returns a token consumes exactly    *)
(* one rune, which is what every turn of the loops of SkipWhite,           *)
(* SkipWhiteUntilLine, parseIdent and parseType does before the next turn; *)
(* every turn of parseList's loop that goes on consumes at least the first *)
(* rune of a name and of a definition; and Parse returns in the end.       *)
C20_ParseTerminates ==
    /\ [](1 \in DOMAIN tok =>
            /\ tok[1].bytePos <= Len(input[1])
            /\ tok[1].runePos = RunesBefore(input[1], tok[1].bytePos)
            /\ Peek(tok[1]).err = Nil =>
                  /\ Next(tok[1]).t.runePos = tok[1].runePos + 1
                  /\ Next(tok[1]).t.bytePos > tok[1].bytePos)
    /\ [][1 \in DOMAIN tok => tok'[1].runePos >= tok[1].runePos]_vars
    /\ [][((At(1, "parseItem", "start") \/ At(1, "parseDef", "start")) /\ ret'[1].err = Nil) =>
            tok'[1].runePos > tok[1].runePos]_vars
    /\ <>Returned(1)

\* Parse has returned after consuming every rune of
\* "(*File) { Read func(b []byte) (n int, err error)\n}".
C20_Witness ==
    /\ Returned(1)
    /\ input[1] = SrcFileTerminated
    /\ TokAt(1).runePos = Len(SrcFileTerminated)
    /\ result[1].err = Nil

-----------------------------------------------------------------------------
(* C21: a byte sequence that does not decode is detected lazily and        *)
(* changes nothing.  Peek and Next return a UTF8Error exactly when the     *)
(* tokenizer stands at the first sequence of the source that Peek rejects, *)
(* and return the tokens before it as if it were not there; the error      *)
(* carries the line and the rune column of that offset; the failing call   *)
(* leaves bytePos, runePos, line, lastLinePos and lookahead as they were,  *)
(* so every later Peek and Next returns the same error; SkipWhite and      *)
(* SkipWhiteUntilLine run up to that offset at most and, once there, leave *)
(* the tokenizer as it is.  The tokenizer never gets past that offset.     *)
C21_InvalidDetectedLazily ==
    /\ [](1 \in DOMAIN tok =>
            /\ FirstRejected(tok[1].src) >= 0 => tok[1].bytePos <= FirstRejected(tok[1].src)
            /\ (last.op \in {"Peek", "Next"} /\ last.err.kind = "UTF8Error") =>
                  /\ tok[1].bytePos = FirstRejected(tok[1].src)
                  /\ tok[1].lookahead = ZeroToken
                  /\ last.tk = ZeroToken
                  /\ last.err = NewUTF8Error(LineAt(tok[1].src, tok[1].bytePos),
                                             ColAt(tok[1].src, tok[1].bytePos)))
    /\ [][1 \in DOMAIN tok =>
            /\ last'.op \in {"Peek", "Next"} =>
                  (last'.err.kind = "UTF8Error" <=> tok[1].bytePos = FirstRejected(tok[1].src))
            /\ tok[1].bytePos = FirstRejected(tok[1].src) => tok' = tok
            /\ (last.err.kind = "UTF8Error" /\ last'.op \in {"Peek", "Next"}) =>
                  last'.err = last.err
            /\ last'.op = "SkipWhite" =>
                  tok'[1].bytePos = WhiteEnd(tok[1].src, tok[1].bytePos)
            /\ last'.op = "SkipWhiteUntilLine" =>
                  tok'[1].bytePos = SameLineEnd(tok[1].src, tok[1].bytePos)]_vars

\* Next has failed at the byte 255 that follows a line feed and a two-byte
\* rune, with the UTF8Error of line 2, column 2.
C21_Witness ==
    /\ 1 \in DOMAIN tok
    /\ last.op = "Next"
    /\ last.err = NewUTF8Error(2, 2)
    /\ tok[1].bytePos = FirstInvalid(tok[1].src)
    /\ tok[1].bytePos - LineStart(tok[1].src, tok[1].bytePos) = 2

-----------------------------------------------------------------------------
(* C22: the tokenizer's fields after any sequence of Peek, Next, SkipWhite *)
(* and SkipWhiteUntilLine calls.  0 <= lastLinePos <= runePos <= bytePos   *)
(* <= len(src) and line >= 1; the lookahead slot is the zero Token or the  *)
(* token of the rune decoded at bytePos, with the tokenizer's bytePos,     *)
(* runePos and line; no call lowers bytePos or runePos; a Next that        *)
(* returns a token raises bytePos by the token's Size, which is at least   *)
(* 1, and runePos by 1.                                                    *)
C22_TokenizerInvariant ==
    /\ [](1 \in DOMAIN tok =>
            /\ 0 <= tok[1].lastLinePos
            /\ tok[1].lastLinePos <= tok[1].runePos
            /\ tok[1].runePos <= tok[1].bytePos
            /\ tok[1].bytePos <= Len(tok[1].src)
            /\ tok[1].line >= 1
            /\ \/ tok[1].lookahead = ZeroToken
               \/ /\ tok[1].lookahead.Size > 0
                  /\ tok[1].lookahead.BytePos = tok[1].bytePos
                  /\ tok[1].lookahead.RunePos = tok[1].runePos
                  /\ tok[1].lookahead.Line = tok[1].line
                  /\ tok[1].lookahead.Lexeme = DecodeRuneInString(tok[1].src, tok[1].bytePos).r
                  /\ tok[1].lookahead.Size = DecodeRuneInString(tok[1].src, tok[1].bytePos).size)
    /\ [][1 \in DOMAIN tok =>
            /\ tok'[1].bytePos >= tok[1].bytePos
            /\ tok'[1].runePos >= tok[1].runePos
            /\ (last'.op = "Next" /\ last'.err = Nil) =>
                  /\ last'.tk.Size >= 1
                  /\ tok'[1].bytePos = tok[1].bytePos + last'.tk.Size
                  /\ tok'[1].runePos = tok[1].runePos + 1]_vars

\* A Peek has filled the lookahead slot on line 2, after a rune of more
\* than one byte and a line feed were consumed.
C22_Witness ==
    /\ 1 \in DOMAIN tok
    /\ last.op = "Peek"
    /\ tok[1].lookahead # ZeroToken
    /\ tok[1].line = 2
    /\ 0 < tok[1].lastLinePos
    /\ tok[1].lastLinePos < tok[1].bytePos - 1
    /\ tok[1].runePos < tok[1].bytePos

-----------------------------------------------------------------------------
\* The kinds of error a caller of Parse can get.
ParseErrorKinds == {"UTF8Error", "UnexpectedTokenError", "EOF"}

(* C23: the error Parse returns is nil, a UTF8Error, an                    *)
(* UnexpectedTokenError or EOF, never the tokenizer's io.EOF.  At every    *)
(* depth, parseList returns EOF when parseItem has returned io.EOF, and    *)
(* whatever parseList returns is nil or of one of the three kinds.         *)
C23_ThreeErrorKinds ==
    /\ [](Returned(1) => result[1].err.kind \in ParseErrorKinds \cup {"nil"})
    /\ [][(At(1, "parseList", "item") /\ ret[1].err = IoEOF) => ret'[1].err = EOF]_vars
    /\ [][(/\ 1 \in DOMAIN stack
           /\ stack[1] # <<>>
           /\ Top(1).fn = "parseList"
           /\ stack'[1] = Tail(stack[1])) =>
            ret'[1].err.kind \in ParseErrorKinds \cup {"nil"}]_vars

\* Parse has returned EOF for a source that ends inside the second of two
\* nested blocks, neither of them closed.
C23_Witness ==
    /\ Returned(1)
    /\ result[1].err = EOF
    /\ Cardinality({i \in 1..Len(input[1]) : input[1][i] = LBrace}) >= 2
    /\ \A i \in 1..Len(input[1]) : input[1][i] # RBrace

-----------------------------------------------------------------------------
(* Well-formed UTF-8, by the table of byte ranges of the encoding: the     *)
(* number of bytes of the well-formed sequence at offset o of s, 0 if      *)
(* there is none.                                                          *)

\* Whether s has at offset o + i a byte between lo and hi.
ByteIn(s, o, i, lo, hi) == o + i < Len(s) /\ ByteAt(s, o + i) >= lo /\ ByteAt(s, o + i) <= hi

WellFormedLen(s, o) ==
    IF ByteIn(s, o, 0, 0, 127) THEN 1
    ELSE IF ByteIn(s, o, 0, 194, 223) /\ ByteIn(s, o, 1, 128, 191) THEN 2
    ELSE IF /\ \/ ByteIn(s, o, 0, 224, 224) /\ ByteIn(s, o, 1, 160, 191)
               \/ ByteIn(s, o, 0, 225, 236) /\ ByteIn(s, o, 1, 128, 191)
               \/ ByteIn(s, o, 0, 237, 237) /\ ByteIn(s, o, 1, 128, 159)
               \/ ByteIn(s, o, 0, 238, 239) /\ ByteIn(s, o, 1, 128, 191)
            /\ ByteIn(s, o, 2, 128, 191)
         THEN 3
    ELSE IF /\ \/ ByteIn(s, o, 0, 240, 240) /\ ByteIn(s, o, 1, 144, 191)
               \/ ByteIn(s, o, 0, 241, 243) /\ ByteIn(s, o, 1, 128, 191)
               \/ ByteIn(s, o, 0, 244, 244) /\ ByteIn(s, o, 1, 128, 143)
            /\ ByteIn(s, o, 2, 128, 191)
            /\ ByteIn(s, o, 3, 128, 191)
         THEN 4
    ELSE 0

\* Whether s has at offset o the bytes 239 191 189 that encode U+FFFD.
IsReplacementAt(s, o) ==
    ByteIn(s, o, 0, 239, 239) /\ ByteIn(s, o, 1, 191, 191) /\ ByteIn(s, o, 2, 189, 189)

(* C24: Peek returns a UTF8Error only where the bytes at the tokenizer's   *)
(* offset are no well-formed UTF-8 sequence: a well-formed sequence, the   *)
(* three bytes of U+FFFD among them, is returned as a token.               *)
C24_OnlyInvalidRejected ==
    (1 \in DOMAIN tok /\ last.op = "Peek" /\ last.err.kind = "UTF8Error") =>
        WellFormedLen(tok[1].src, tok[1].bytePos) = 0

(* What Peek does: it returns a UTF8Error where the bytes are no           *)
(* well-formed sequence and where they are the well-formed 239 191 189 of  *)
(* U+FFFD, and nowhere else; any other well-formed sequence is returned as *)
(* a token of its rune and its number of bytes.                            *)
C24_RejectedIsInvalidOrReplacement ==
    (1 \in DOMAIN tok /\ last.op = "Peek" /\ tok[1].bytePos < Len(tok[1].src)) =>
        /\ last.err.kind = "UTF8Error" <=>
              \/ WellFormedLen(tok[1].src, tok[1].bytePos) = 0
              \/ IsReplacementAt(tok[1].src, tok[1].bytePos)
        /\ last.err = Nil =>
              /\ last.tk.Size = WellFormedLen(tok[1].src, tok[1].bytePos)
              /\ last.tk.Lexeme # RuneError

====
